---- MODULE Spec2Model ----
(***************************************************************************)
(* binarray: unsigned integers used as statically sized binary arrays.     *)
(*                                                                         *)
(* A W-bit unsigned integer is modelled as its bit vector, a function      *)
(* [0..W-1 -> {0,1}] whose element k is the bit of weight 2^k.  The        *)
(* machine operations of the source (&, |, !, <<, wrapping_sub, "as")     *)
(* are defined on bit vectors with their W-bit semantics, so that the      *)
(* 32, 64 and 128 bit implementations are modelled at their real width.    *)
(***************************************************************************)
EXTENDS Integers, Sequences, FiniteSets, TLC

\* ------------------------------------------------------------- bounds
\* Initial values of the receiver: the low LowBits bits take every
\* combination, the remaining high bits follow one of HighPatterns.
LowBits == 2

\* Longest sequence of `x = x.set_bit(i, b)` statements (SpecSeq).
MaxSteps == 2

\* SpecSeq draws its indices from the IdxSpread lowest and the IdxSpread
\* highest bit positions of the type.
IdxSpread == 2

\* ------------------------------------------------- W-bit machine words
Pow2(n) == 2 ^ n

\* The integer literal n (n < 2^30) typed as a W-bit unsigned integer.
Lit(n, W) == [k \in 0..(W - 1) |-> IF k < 30 THEN (n \div Pow2(k)) % 2 ELSE 0]

\* `value as uW` for a bool: true is 1, false is 0.
BoolAs(value, W) == Lit(IF value THEN 1 ELSE 0, W)

BitAnd(a, b) == [k \in DOMAIN a |-> a[k] * b[k]]

BitOr(a, b) == [k \in DOMAIN a |-> IF a[k] + b[k] > 0 THEN 1 ELSE 0]

BitNot(a) == [k \in DOMAIN a |-> 1 - a[k]]

\* `a << s` overflows when the shift amount is not below the width of a:
\* a panic with overflow checks on, a shift by s mod W with them off.
ShlOverflows(s, W) == s >= W

Shl(a, s, W) ==
    LET n == s % W
    IN  [k \in 0..(W - 1) |-> IF k >= n THEN a[k - n] ELSE 0]

\* a.saturating_sub(b) in place of the wrapping subtraction: 0 when a < b.
saturating_sub(a, b, W) ==
    LET gen == {j \in 0..(W - 1) : a[j] < b[j]}
        kill == {j \in 0..(W - 1) : a[j] > b[j]}
        below == \E j \in gen : ~(\E m \in kill : j < m)
        borrow(k) == IF \E j \in gen : j < k /\ ~(\E m \in kill : j < m /\ m < k)
                     THEN 1 ELSE 0
    IN  [k \in 0..(W - 1) |->
            IF below THEN 0 ELSE (a[k] - b[k] - borrow(k) + 2) % 2]

\* a.wrapping_sub(b): a - b modulo 2^W.  Bit k of the difference is
\* a[k] - b[k] - borrow (mod 2), and a borrow enters position k exactly when
\* the low k bits of a are below the low k bits of b: some position j < k
\* has a[j] < b[j] and no position between j and k has a[m] > b[m].
wrapping_sub(a, b, W) ==
    LET gen == {j \in 0..(W - 1) : a[j] < b[j]}
        kill == {j \in 0..(W - 1) : a[j] > b[j]}
        borrow(k) == IF \E j \in gen : j < k /\ ~(\E m \in kill : j < m /\ m < k)
                     THEN 1 ELSE 0
    IN  [k \in 0..(W - 1) |-> (a[k] - b[k] - borrow(k) + 2) % 2]

\* ------------------------------------------------------- format!("{:0Nb}")
\* Position of the highest 1 bit of a, or 0 when a is zero.
HighestOne(a, W) ==
    CHOOSE k \in 0..(W - 1) :
        /\ a[k] = 1 \/ k = 0
        /\ \A m \in (k + 1)..(W - 1) : a[m] = 0

Digit(d) == IF d = 1 THEN "1" ELSE "0"

\* The `b` (Binary) rendering of an unsigned integer: its binary digits, most
\* significant first, without leading zeros ("0" for zero).
Binary(a, W) ==
    LET h == HighestOne(a, W)
    IN  [p \in 1..(h + 1) |-> Digit(a[h + 1 - p])]

\* The `0width` flag: zeros are added on the left up to width characters;
\* a longer string is left alone.
ZeroPad(s, width) ==
    IF Len(s) >= width THEN s
    ELSE [p \in 1..(width - Len(s)) |-> "0"] \o s

\* `a as uW` for a narrower unsigned a: zero extension.
ZExt(a, W) == [k \in 0..(W - 1) |-> IF k \in DOMAIN a THEN a[k] ELSE 0]

\* ------------------------------------------- impl BinaryArray for uN
\* In every impl the literal 1 takes the type of *self (the operands of a
\* built-in & have one type), so the mask is as wide as the value.
\* The fill taken to be `value as u8` itself, without the subtraction from 0.
u8_set_bit_NoWrap(self, index, value) ==
    LET mask == Shl(Lit(1, 8), index, 8)
    IN  BitOr(BitAnd(self, BitNot(mask)), BitAnd(mask, BoolAs(value, 8)))

\* Bit positions counted from the most significant end.
u8_get_bit_MsbFirst(self, index) ==
    BitAnd(self, Shl(Lit(1, 8), 7 - index, 8)) # Lit(0, 8)

\* impl BinaryArray for u8
u8_get_bit(self, index) ==
    BitAnd(self, Shl(Lit(1, 8), index, 8)) # Lit(0, 8)

u8_set_bit(self, index, value) ==
    LET mask == Shl(Lit(1, 8), index, 8)
    IN  BitOr(BitAnd(self, BitNot(mask)),
              BitAnd(mask, wrapping_sub(Lit(0, 8), BoolAs(value, 8), 8)))

u8_to_bstring(self) == ZeroPad(Binary(self, 8), 8)

\* The fill taken to be `value as u16` itself, without the subtraction from 0.
u16_set_bit_NoWrap(self, index, value) ==
    LET mask == Shl(Lit(1, 16), index, 16)
    IN  BitOr(BitAnd(self, BitNot(mask)), BitAnd(mask, BoolAs(value, 16)))

\* impl BinaryArray for u16
u16_get_bit(self, index) ==
    BitAnd(self, Shl(Lit(1, 16), index, 16)) # Lit(0, 16)

u16_set_bit(self, index, value) ==
    LET mask == Shl(Lit(1, 16), index, 16)
    IN  BitOr(BitAnd(self, BitNot(mask)),
              BitAnd(mask, wrapping_sub(Lit(0, 16), BoolAs(value, 16), 16)))

u16_to_bstring(self) == ZeroPad(Binary(self, 16), 16)

\* The target bit is not cleared before the fill is or-ed in.
u32_set_bit_NoClear(self, index, value) ==
    LET mask == Shl(Lit(1, 32), index, 32)
    IN  BitOr(self, BitAnd(mask, wrapping_sub(Lit(0, 32), BoolAs(value, 32), 32)))

\* impl BinaryArray for u32
u32_get_bit(self, index) ==
    BitAnd(self, Shl(Lit(1, 32), index, 32)) # Lit(0, 32)

u32_set_bit(self, index, value) ==
    LET mask == Shl(Lit(1, 32), index, 32)
    IN  BitOr(BitAnd(self, BitNot(mask)),
              BitAnd(mask, wrapping_sub(Lit(0, 32), BoolAs(value, 32), 32)))

u32_to_bstring(self) == ZeroPad(Binary(self, 32), 32)

\* format!("{:b}"): the zero padding left out.
u64_to_bstring_NoPad(self) == Binary(self, 64)

\* impl BinaryArray for u64
u64_get_bit(self, index) ==
    BitAnd(self, Shl(Lit(1, 64), index, 64)) # Lit(0, 64)

u64_set_bit(self, index, value) ==
    LET mask == Shl(Lit(1, 64), index, 64)
    IN  BitOr(BitAnd(self, BitNot(mask)),
              BitAnd(mask, wrapping_sub(Lit(0, 64), BoolAs(value, 64), 64)))

u64_to_bstring(self) == ZeroPad(Binary(self, 64), 64)

\* The mask built as a 64-bit value (`1_u64 << index`, the shift amount
\* wrapping) and widened afterwards.
u128_set_bit_Mask64(self, index, value) ==
    LET mask == ZExt(Shl(Lit(1, 64), index, 64), 128)
    IN  BitOr(BitAnd(self, BitNot(mask)),
              BitAnd(mask, wrapping_sub(Lit(0, 128), BoolAs(value, 128), 128)))

\* impl BinaryArray for u128
u128_get_bit(self, index) ==
    BitAnd(self, Shl(Lit(1, 128), index, 128)) # Lit(0, 128)

u128_set_bit(self, index, value) ==
    LET mask == Shl(Lit(1, 128), index, 128)
    IN  BitOr(BitAnd(self, BitNot(mask)),
              BitAnd(mask, wrapping_sub(Lit(0, 128), BoolAs(value, 128), 128)))

u128_to_bstring(self) == ZeroPad(Binary(self, 128), 128)

\* The target bit is not cleared before the fill is or-ed in.
usize_set_bit_NoClear(self, index, value, target_pointer_width) ==
    LET W == target_pointer_width
        mask == Shl(Lit(1, W), index, W)
    IN  BitOr(self, BitAnd(mask, wrapping_sub(Lit(0, W), BoolAs(value, W), W)))

\* The padding width hardcoded for a 64-bit target.
usize_to_bstring_Fixed64(self, target_pointer_width) ==
    ZeroPad(Binary(self, target_pointer_width), 64)

\* impl BinaryArray for usize: its width is the target's pointer width.
size_of_usize(target_pointer_width) == target_pointer_width \div 8

usize_get_bit(self, index, target_pointer_width) ==
    BitAnd(self, Shl(Lit(1, target_pointer_width), index, target_pointer_width))
        # Lit(0, target_pointer_width)

usize_set_bit(self, index, value, target_pointer_width) ==
    LET W == target_pointer_width
        mask == Shl(Lit(1, W), index, W)
    IN  BitOr(BitAnd(self, BitNot(mask)),
              BitAnd(mask, wrapping_sub(Lit(0, W), BoolAs(value, W), W)))

usize_to_bstring(self, target_pointer_width) ==
    ZeroPad(Binary(self, target_pointer_width),
            size_of_usize(target_pointer_width) * 8)

\* ------------------------------------------------- trait BinaryArray
TypeNames == {"u8", "u16", "u32", "u64", "u128", "usize"}

\* Pointer widths of the targets Rust supports.
PointerWidths == {16, 32, 64}

BITS(t, target_pointer_width) ==
    CASE t = "u8" -> 8
      [] t = "u16" -> 16
      [] t = "u32" -> 32
      [] t = "u64" -> 64
      [] t = "u128" -> 128
      [] t = "usize" -> target_pointer_width

\* Method calls resolve to the impl of the receiver's type t; W is the
\* target's pointer width when t is usize and is not read otherwise.
get_bit(t, W, self, index) ==
    CASE t = "u8" -> u8_get_bit(self, index)
      [] t = "u16" -> u16_get_bit(self, index)
      [] t = "u32" -> u32_get_bit(self, index)
      [] t = "u64" -> u64_get_bit(self, index)
      [] t = "u128" -> u128_get_bit(self, index)
      [] t = "usize" -> usize_get_bit(self, index, W)

set_bit(t, W, self, index, value) ==
    CASE t = "u8" -> u8_set_bit(self, index, value)
      [] t = "u16" -> u16_set_bit(self, index, value)
      [] t = "u32" -> u32_set_bit(self, index, value)
      [] t = "u64" -> u64_set_bit(self, index, value)
      [] t = "u128" -> u128_set_bit(self, index, value)
      [] t = "usize" -> usize_set_bit(self, index, value, W)

to_bstring(t, W, self) ==
    CASE t = "u8" -> u8_to_bstring(self)
      [] t = "u16" -> u16_to_bstring(self)
      [] t = "u32" -> u32_to_bstring(self)
      [] t = "u64" -> u64_to_bstring(self)
      [] t = "u128" -> u128_to_bstring(self)
      [] t = "usize" -> usize_to_bstring(self, W)

\* ---------------------------------------------------------- inputs
\* The numbers the tests of the crate use.
TestNums == {0, 4, 6, 69, 10740, 1}

HighPatterns == {"zeros", "ones", "top", "alt"}

PatternValue(lo, hp, W) ==
    [k \in 0..(W - 1) |->
        IF k < LowBits THEN (lo \div Pow2(k)) % 2
        ELSE CASE hp = "zeros" -> 0
               [] hp = "ones" -> 1
               [] hp = "top" -> IF k = W - 1 THEN 1 ELSE 0
               [] hp = "alt" -> k % 2]

FitsWidth(n, W) == W >= 30 \/ n < Pow2(W)

Values(W) ==
    {PatternValue(lo, hp, W) : lo \in 0..(Pow2(LowBits) - 1), hp \in HighPatterns}
        \cup {Lit(n, W) : n \in {m \in TestNums : FitsWidth(m, W)}}

\* Indices a caller may pass: every in-range one, and the first out-of-range one.
Indices(W) == 0..W

\* ------------------------------------------------------------ state
VARIABLES
    ty,        \* the type of the receiver
    bits,      \* its width W on this target
    x,         \* the receiver: the caller's variable
    op,        \* the last method called ("" before the first call)
    idx,       \* the index passed to it
    bit,       \* the value passed to set_bit
    ret,       \* what set_bit returned
    got,       \* what get_bit returned
    str,       \* what to_bstring returned
    panicked,  \* the thread panicked (shift overflow with overflow checks on)
    v0,        \* the value the receiver started with
    last,      \* per bit position: the bit last assigned to it, -1 if never
    steps      \* number of `x = x.set_bit(i, b)` statements executed

vars == << ty, bits, x, op, idx, bit, ret, got, str, panicked, v0, last, steps >>

Start(vals) ==
    /\ ty \in TypeNames
    /\ \E p \in PointerWidths : bits = BITS(ty, p)
    /\ x \in vals[bits]
    /\ v0 = x
    /\ op = ""
    /\ idx = 0
    /\ bit = FALSE
    /\ ret = Lit(0, bits)
    /\ got = FALSE
    /\ str = << >>
    /\ panicked = FALSE
    /\ last = [k \in 0..(bits - 1) |-> -1]
    /\ steps = 0

Init == Start([W \in {8, 16, 32, 64, 128} |-> Values(W)])

\* Spec: a program that builds a receiver and makes one method call on it.
\* (No call changes the receiver, so a second call would be made on the same
\* value as the first.)

\* `1 << index` with index >= W: the panic of a build with overflow checks.
ShiftPanic(o, i) ==
    /\ ShlOverflows(i, bits)
    /\ panicked' = TRUE
    /\ op' = o
    /\ idx' = i
    /\ bit' = FALSE
    /\ ret' = Lit(0, bits)
    /\ got' = FALSE
    /\ str' = << >>
    /\ UNCHANGED << ty, bits, x, v0, last, steps >>

\* x.get_bit(i)
CallGetBit ==
    /\ op = ""
    /\ \E i \in Indices(bits) :
        \/ ShiftPanic("get_bit", i)
        \/ /\ got' = get_bit(ty, bits, x, i)
           /\ op' = "get_bit"
           /\ idx' = i
           /\ bit' = FALSE
           /\ ret' = Lit(0, bits)
           /\ str' = << >>
           /\ UNCHANGED << ty, bits, x, panicked, v0, last, steps >>

\* x.set_bit(i, b) as a statement of its own: the method computes and returns
\* the new value and never writes through its `&mut self`, so x keeps its value.
CallSetBit ==
    /\ op = ""
    /\ \E i \in Indices(bits), b \in BOOLEAN :
        \/ ShiftPanic("set_bit", i)
        \/ /\ ret' = set_bit(ty, bits, x, i, b)
           /\ op' = "set_bit"
           /\ idx' = i
           /\ bit' = b
           /\ got' = FALSE
           /\ str' = << >>
           /\ UNCHANGED << ty, bits, x, panicked, v0, last, steps >>

\* x.to_bstring()
CallToBstring ==
    /\ op = ""
    /\ str' = to_bstring(ty, bits, x)
    /\ op' = "to_bstring"
    /\ idx' = 0
    /\ bit' = FALSE
    /\ ret' = Lit(0, bits)
    /\ got' = FALSE
    /\ UNCHANGED << ty, bits, x, panicked, v0, last, steps >>

Next == CallGetBit \/ CallSetBit \/ CallToBstring

Spec == Init /\ [][Next]_vars

\* SpecSeq: a program that builds a receiver and runs up to MaxSteps
\* statements `x = x.set_bit(i, b)`, each with an in-range index.
SeqValues(W) ==
    {PatternValue(0, hp, W) : hp \in {"zeros", "ones", "alt"}}
        \cup {Lit(n, W) : n \in {1, 6, 69}}

SeqIndices(W) == {i \in 0..(W - 1) : i < IdxSpread \/ i >= W - IdxSpread}

InitSeq == Start([W \in {8, 16, 32, 64, 128} |-> SeqValues(W)])

AssignSetBit ==
    /\ steps < MaxSteps
    /\ \E i \in SeqIndices(bits), b \in BOOLEAN :
        /\ ret' = set_bit(ty, bits, x, i, b)
        /\ x' = ret'
        /\ op' = "set_bit"
        /\ idx' = i
        /\ bit' = b
        /\ last' = [last EXCEPT ![i] = IF b THEN 1 ELSE 0]
        /\ steps' = steps + 1
        /\ UNCHANGED << ty, bits, got, str, panicked, v0 >>

NextSeq == AssignSetBit

SpecSeq == InitSeq /\ [][NextSeq]_vars

\* ============================================================ claims
\* The value of a bit vector whose bits from position 30 up are all 0.
FitsInt(a) == \A k \in DOMAIN a : k >= 30 => a[k] = 0

RECURSIVE Weigh(_, _)
Weigh(a, k) ==
    IF k >= 30 \/ k \notin DOMAIN a THEN 0
    ELSE a[k] * Pow2(k) + Weigh(a, k + 1)

ToNat(a) == Weigh(a, 0)

\* A set_bit call with an in-range index has returned.
SetBitDone == op = "set_bit" /\ ~panicked /\ idx < bits

\* A get_bit call with an in-range index has returned.
GetBitDone == op = "get_bit" /\ ~panicked /\ idx < bits

Words(W) == [0..(W - 1) -> {0, 1}]

\* a with bit i forced to d.
Forced(a, i, d) == [a EXCEPT ![i] = d]

\* The positions j read back after a write to position i: all of them up to
\* 16 bits; for wider words the two ends of the word, the neighbours of i and
\* the positions 8, 16, 32 or 64 away from i.
Probes(W, i) ==
    IF W <= 16 THEN 0..(W - 1)
    ELSE {j \in 0..(W - 1) :
            \/ j = 0 \/ j = W - 1
            \/ j = i - 1 \/ j = i + 1
            \/ \E n \in {8, 16, 32, 64} : j = i - n \/ j = i + n}

\* C1: after set_bit(v, i, b) with 0 <= i < W, get_bit of the returned value
\* at i is b.
C1_ReadBack == SetBitDone => get_bit(ty, bits, ret, idx) = bit

\* test_set_bit1: 0_u8.set_bit(2, true) returns 4, whose bit 2 reads true.
C1_Witness ==
    /\ SetBitDone /\ ty = "u8" /\ x = Lit(0, 8) /\ idx = 2 /\ bit
    /\ ret = Lit(4, 8)
    /\ u8_get_bit(ret, 2)

\* C2: set_bit(v, i, b) with 0 <= i < W leaves every other bit as it was:
\* bit j of the returned value is bit j of v for every j # i, and get_bit
\* reads the same at j on both (at every j for the 128-bit value 1, and at
\* the positions of Probes otherwise).
C2_NonInterference ==
    SetBitDone =>
        /\ \A j \in (0..(bits - 1)) \ {idx} : ret[j] = x[j]
        /\ \A j \in (IF x = Lit(1, bits) THEN 0..(bits - 1) ELSE Probes(bits, idx)) \ {idx} :
                get_bit(ty, bits, ret, j) = get_bit(ty, bits, x, j)

\* 1_u128.set_bit(127, true): bit 0 still reads true, bit 127 reads true.
C2_Witness ==
    /\ SetBitDone /\ ty = "u128" /\ x = Lit(1, 128) /\ idx = 127 /\ bit
    /\ u128_get_bit(ret, 0) /\ u128_get_bit(ret, 127)
    /\ \A j \in 1..126 : ret[j] = 0

\* C3: get_bit(v, i) with 0 <= i < W is true exactly when bit i of v, counted
\* from the least significant bit as 0, is 1: floor(v / 2^i) mod 2 = 1.
C3_GetBitReference ==
    GetBitDone =>
        /\ got = (x[idx] = 1)
        /\ (FitsInt(x) /\ idx < 30) => (got = ((ToNat(x) \div Pow2(idx)) % 2 = 1))

\* test_get_bit: 4_u8.get_bit(2) is true.
C3_Witness ==
    /\ GetBitDone /\ ty = "u8" /\ x = Lit(4, 8) /\ idx = 2 /\ got
    /\ ToNat(x) = 4

\* C4: after x.set_bit(i, b) with 0 <= i < W the receiver x holds the value
\* that set_bit returned.
C4_InPlace == SetBitDone => x = ret

\* C5: to_bstring(v) has exactly W characters, each '0' or '1', and the
\* character at position W-1-i from the left is '1' exactly when get_bit(v, i).
C5_Bstring ==
    op = "to_bstring" =>
        /\ Len(str) = bits
        /\ \A p \in 1..Len(str) : str[p] \in {"0", "1"}
        /\ \A i \in 0..(bits - 1) : (str[bits - i] = "1") = get_bit(ty, bits, x, i)

\* test_print: 69_u8.to_bstring() is "01000101".
C5_Witness ==
    /\ op = "to_bstring" /\ ty = "u8" /\ x = Lit(69, 8)
    /\ str = << "0", "1", "0", "0", "0", "1", "0", "1" >>

\* C6: set_bit(v, i, get_bit(v, i)) with 0 <= i < W is v.
C6_Idempotent == GetBitDone => set_bit(ty, bits, x, idx, got) = x

\* A 1 bit read at the top position of a u32 and written back.
C6_Witness ==
    /\ GetBitDone /\ ty = "u32" /\ idx = 31 /\ got
    /\ u32_set_bit(x, 31, TRUE) = x

\* C7: set_bit(set_bit(v, i, true), i, false) with 0 <= i < W is v with bit i
\* cleared: v when bit i of v was 0, v - 2^i when it was 1.
C7_SetThenClear ==
    (SetBitDone /\ bit) =>
        LET r2 == set_bit(ty, bits, ret, idx, FALSE)
        IN  /\ r2 = Forced(x, idx, 0)
            /\ (FitsInt(x) /\ idx < 30) =>
                    ToNat(r2) = ToNat(x) - (IF x[idx] = 1 THEN Pow2(idx) ELSE 0)

\* 6_u8: bit 1 is already 1; setting then clearing it gives 4 (test_set_bit2).
C7_Witness ==
    /\ SetBitDone /\ bit /\ ty = "u8" /\ x = Lit(6, 8) /\ idx = 1
    /\ u8_set_bit(ret, 1, FALSE) = Lit(4, 8)

\* The impls, each with its width (usize once per pointer width).
Impls ==
    {<< t, BITS(t, 64) >> : t \in TypeNames \ {"usize"}}
        \cup {<< "usize", p >> : p \in PointerWidths}

\* C8: for widths W1 < W2, a value v < 2^W1, an index i < W1 and a boolean b,
\* the impl of width W2 agrees with the impl of width W1: get_bit returns the
\* same boolean, set_bit the same integer, and to_bstring the same string
\* behind W2 - W1 further '0' characters.
C8_WidthsAgree ==
    \A p \in Impls :
        p[2] > bits =>
            LET wide == ZExt(x, p[2])
            IN  /\ GetBitDone => get_bit(p[1], p[2], wide, idx) = got
                /\ SetBitDone => set_bit(p[1], p[2], wide, idx, bit) = ZExt(ret, p[2])
                /\ op = "to_bstring" =>
                        to_bstring(p[1], p[2], wide) = [q \in 1..(p[2] - bits) |-> "0"] \o str

\* test_print: 10740_u16.to_bstring() is "0010100111110100".
C8_Witness ==
    /\ op = "to_bstring" /\ ty = "u16" /\ x = Lit(10740, 16)
    /\ str = << "0", "0", "1", "0", "1", "0", "0", "1",
                "1", "1", "1", "1", "0", "1", "0", "0" >>
    /\ u128_to_bstring(ZExt(x, 128)) = [q \in 1..112 |-> "0"] \o str

\* C9: for 0 <= i < W the mask 1 << i is 2^i (one bit set), the fill
\* 0 - (b as 0 or 1) mod 2^W is all ones for b true and 0 for b false, and the
\* returned (v AND NOT mask) OR (mask AND fill) is v with bit i forced to b,
\* a W-bit value.
C9_Branchless ==
    SetBitDone =>
        LET mask == Shl(Lit(1, bits), idx, bits)
            fill == wrapping_sub(Lit(0, bits), BoolAs(bit, bits), bits)
            d == IF bit THEN 1 ELSE 0
        IN  /\ mask = [k \in 0..(bits - 1) |-> IF k = idx THEN 1 ELSE 0]
            /\ idx < 30 => ToNat(mask) = Pow2(idx)
            /\ fill = [k \in 0..(bits - 1) |-> d]
            /\ bits <= 16 => ToNat(fill) = d * (Pow2(bits) - 1)
            /\ ret = BitOr(BitAnd(x, BitNot(mask)), BitAnd(mask, fill))
            /\ ret = Forced(x, idx, d)
            /\ ret \in Words(bits)
            /\ (FitsInt(x) /\ idx < 30) =>
                    ToNat(ret) = ToNat(x) + (d - x[idx]) * Pow2(idx)

\* The top bit of a u64 set in a value whose top bit was 0.
C9_Witness ==
    /\ SetBitDone /\ ty = "u64" /\ idx = 63 /\ bit /\ x[63] = 0
    /\ ret[63] = 1

\* C10: along any sequence of `x = x.set_bit(i, b)` statements with in-range
\* indices, bit j of x is the b of the latest statement on j, or bit j of the
\* starting value when there was none; x stays a W-bit value; and two set_bit
\* calls on different indices give the same value in either order.
C10_LastWriteWins ==
    /\ x \in Words(bits)
    /\ \A j \in 0..(bits - 1) : x[j] = (IF last[j] = -1 THEN v0[j] ELSE last[j])
    /\ steps = 0 =>
        \A i, j \in SeqIndices(bits) : \A b, c \in BOOLEAN :
            i < j =>
                set_bit(ty, bits, set_bit(ty, bits, x, i, b), j, c)
                    = set_bit(ty, bits, set_bit(ty, bits, x, j, c), i, b)

\* Two statements on different bits of a u128, and an overwritten bit.
C10_Witness ==
    /\ steps = 2 /\ ty = "u128" /\ v0 = Lit(1, 128)
    /\ last[127] = 1 /\ last[0] = 0
    /\ x[127] = 1 /\ x[0] = 0

====
